---- MODULE Spec2Model ----
(***************************************************************************)
(* Model of ttrpgm's schema-driven record store (src/ttrpgm/data.py):      *)
(* the Template validators and the DataDashboard JSON store with its       *)
(* rename-based backup, driven by the dash form callbacks.                 *)
(*                                                                         *)
(* Strings whose characters matter (record names, field names) are         *)
(* sequences of one-character strings, so that str.strip() and str.lower() *)
(* are computed.  A Python dict is a TLA+ function; Python's None is a     *)
(* value of the same shape as the values it is compared with.              *)
(***************************************************************************)
EXTENDS Integers, Sequences, FiniteSets, TLC

\* ------------------------------------------------------------- bounds
\* most records the store is let to hold
MaxRecords == 2
\* longest hidden_columns / group_count_columns list given to Template
MaxCols == 2
\* most mutators that are stopped before they return
MaxFaults == 2
\* users that log in to the adversary pages
MaxUsers == 2
\* most rows of the adversary table, and the largest id asked for
MaxRows == 2

\* ------------------------------------------------------------- strings
\* str.lower() on one character
LowerChar(c) ==
    CASE c = "A" -> "a"
      [] c = "B" -> "b"
      [] c = "N" -> "n"
      [] c = "M" -> "m"
      [] c = "E" -> "e"
      [] c = "H" -> "h"
      [] c = "P" -> "p"
      [] OTHER -> c

\* str.isspace() on one character
IsSpace(c) == c = " "

\* str.lower()
lower(s) == [i \in 1..Len(s) |-> LowerChar(s[i])]

RECURSIVE lstrip(_)
lstrip(s) == IF s # <<>> /\ IsSpace(Head(s)) THEN lstrip(Tail(s)) ELSE s

RECURSIVE rstrip(_)
rstrip(s) ==
    IF s # <<>> /\ IsSpace(s[Len(s)]) THEN rstrip(SubSeq(s, 1, Len(s) - 1)) ELSE s

\* str.strip()
strip(s) == rstrip(lstrip(s))

\* Python's None where a name string is expected
None == <<"None">>

\* Python's None as a value of the store (JSON null)
NoneValue == [null |-> TRUE]

\* the names typed into the name input: three identities, with their
\* variants in letter case and in surrounding whitespace
Names ==
    { <<"a">>, <<"A">>, <<" ", "a">>, <<"A", " ">>,
      <<"b">>, <<" ", "B", " ">>,
      <<"a", "B">> }

\* values of the second input of the form
Healths == {"10", "20"}

\* ------------------------------------------------------------- Template
T_name == <<"n", "a", "m", "e">>

\* field names used in the declared templates
FieldNames ==
    { T_name,
      <<" ", "N", "a", "m", "e">>,
      <<"h", "p">>,
      <<"H", "P", " ">> }

\* the lists of at most n field names
RECURSIVE ListsUpTo(_)
ListsUpTo(n) ==
    IF n = 0 THEN {<<>>}
    ELSE LET shorter == ListsUpTo(n - 1)
         IN  shorter \cup {Append(l, f) : l \in shorter, f \in FieldNames}

\* Template.normalise_schema_names: the keys of new_dict, and the raise
normalise_schema_names(values) ==
    LET new_keys == {lower(strip(name)) : name \in DOMAIN values}
        new_dict == [k \in new_keys |-> "text"]
    IN  IF T_name \notin DOMAIN new_dict
        THEN [kind |-> "ValueError", val |-> new_dict]
        ELSE [kind |-> "ok", val |-> new_dict]

\* Template.check_hidden_columns; info_data is info.data, the fields
\* validated so far (a field that failed validation is not a key of it)
RECURSIVE check_hidden_columns_loop(_, _, _)
check_hidden_columns_loop(values, info_data, new_values) ==
    IF values = <<>> THEN [kind |-> "ok", val |-> new_values]
    ELSE LET name == lower(strip(Head(values)))
         IN  IF "schema" \notin DOMAIN info_data
             THEN [kind |-> "KeyError", val |-> <<>>]
             ELSE IF name \notin DOMAIN info_data["schema"]
             THEN [kind |-> "ValueError", val |-> <<>>]
             ELSE check_hidden_columns_loop(Tail(values), info_data,
                                            Append(new_values, name))

check_hidden_columns(values, info_data) ==
    check_hidden_columns_loop(values, info_data, <<>>)

\* Template(name=..., schema=..., hidden_columns=..., group_count_columns=...):
\* the fields are validated in declaration order; a validator's ValueError
\* becomes an error of its field, which is then left out of info.data, and
\* the next fields are still validated; any other exception raised by a
\* validator leaves the constructor as it is.
Template(schema, hidden_columns, group_count_columns) ==
    LET s  == normalise_schema_names(schema)
        d1 == IF s.kind = "ok" THEN [name |-> "monster", schema |-> s.val]
                               ELSE [name |-> "monster"]
        h  == check_hidden_columns(hidden_columns, d1)
        d2 == IF h.kind = "ok"
              THEN [f \in DOMAIN d1 \cup {"hidden_columns"} |->
                      IF f = "hidden_columns" THEN h.val ELSE d1[f]]
              ELSE d1
        g  == check_hidden_columns(group_count_columns, d2)
    IN  IF h.kind = "KeyError" THEN [kind |-> "KeyError"]
        ELSE IF g.kind = "KeyError" THEN [kind |-> "KeyError"]
        ELSE IF s.kind # "ok" \/ h.kind # "ok" \/ g.kind # "ok"
        THEN [kind |-> "ValidationError"]
        ELSE [kind |-> "Template", schema |-> s.val,
              hidden_columns |-> h.val, group_count_columns |-> g.val]

\* ------------------------------------------------------------- files
\* a path at which there is no file
NoFile == [t |-> "nofile"]

\* json.dump of one value of the store: a dict of strings, or None
json_dump_value(v) ==
    IF v = NoneValue THEN [t |-> "null"]
    ELSE [t |-> "object",
          m |-> [f \in DOMAIN v |-> [t |-> "string", v |-> v[f]]]]

\* json.dump(self.data, file): the text of the file
json_dump(d) ==
    [t |-> "object", m |-> [k \in DOMAIN d |-> json_dump_value(d[k])]]

json_load_value(j) ==
    IF j.t = "null" THEN NoneValue
    ELSE [f \in DOMAIN j.m |-> j.m[f].v]

\* json.load(file)
json_load(j) == [k \in DOMAIN j.m |-> json_load_value(j.m[k])]

\* the empty dict
EmptyDict == [k \in {} |-> NoneValue]

\* DataDashboard.__init__: self.data
DataDashboard(file) == IF file # NoFile THEN json_load(file) ELSE EmptyDict

\* check_data without the lower(): the key is looked up as typed, trimmed
check_data_no_lower(d, name) == strip(name) \in DOMAIN d

\* check_data without the strip(): the key is looked up with its whitespace
check_data_no_strip(d, name) == lower(name) \in DOMAIN d

\* DataDashboard.check_data
check_data(d, name) == strip(lower(name)) \in DOMAIN d

\* get_data that subscripts with the name as given
get_data_raw(d, name) ==
    IF name \in DOMAIN d THEN [kind |-> "ok", val |-> d[name]]
    ELSE [kind |-> "KeyError", val |-> NoneValue]

\* DataDashboard.get_data: the value, or the KeyError of the subscript
get_data(d, name) ==
    LET key == lower(strip(name))
    IN  IF key \in DOMAIN d THEN [kind |-> "ok", val |-> d[key]]
        ELSE [kind |-> "KeyError", val |-> NoneValue]

\* backup_database that returns when a backup file is there already
backup_database_keep_old(fs) ==
    IF fs.live = NoFile \/ fs.backup # NoFile
    THEN [live |-> fs.live, backup |-> fs.backup, io |-> fs.io]
    ELSE [live |-> NoFile, backup |-> fs.live, io |-> fs.io \o <<"rename">>]

\* DataDashboard.backup_database on the two paths; io lists the calls made
\* on the file system
backup_database(fs) ==
    IF fs.live = NoFile
    THEN [live |-> fs.live, backup |-> fs.backup, io |-> fs.io]
    ELSE [live |-> NoFile, backup |-> fs.live,
          io |-> fs.io \o (IF fs.backup # NoFile THEN <<"unlink">> ELSE <<>>)
                       \o <<"rename">>]

\* open(self.data_path, "wt") ... json.dump(self.data, file)
write_database(fs, d) ==
    [live |-> json_dump(d), backup |-> fs.backup, io |-> Append(fs.io, "write")]

\* dict.pop(name, None): the dict that is left
dict_pop(d, name) == [k \in DOMAIN d \ {name} |-> d[k]]

\* remove_data whose warning branch does not return
remove_data_no_return(d, fs, name) ==
    LET d1 == dict_pop(d, name)
    IN  [data |-> d1, fs |-> write_database(backup_database(fs), d1),
         kind |-> "ok"]

\* DataDashboard.remove_data
remove_data(d, fs, name) ==
    LET removed == IF name \in DOMAIN d THEN d[name] ELSE NoneValue
        d1      == dict_pop(d, name)
    IN  IF removed = NoneValue
        THEN [data |-> d1, fs |-> fs, kind |-> "RuntimeWarning"]
        ELSE [data |-> d1, fs |-> write_database(backup_database(fs), d1),
              kind |-> "ok"]

\* update_data that writes the file before it sets the entry
update_data_write_first(d, fs, name, values) ==
    IF name = None
    THEN [data |-> d, fs |-> fs, kind |-> "AttributeError"]
    ELSE LET key == lower(strip(name))
             d1  == [k \in DOMAIN d \cup {key} |->
                       IF k = key THEN values ELSE d[k]]
         IN  [data |-> d1, fs |-> write_database(backup_database(fs), d),
              kind |-> "ok"]

\* update_data that stores under the name as given
update_data_raw_key(d, fs, name, values) ==
    IF name = None
    THEN [data |-> d, fs |-> fs, kind |-> "AttributeError"]
    ELSE LET d1 == [k \in DOMAIN d \cup {name} |->
                      IF k = name THEN values ELSE d[k]]
         IN  [data |-> d1, fs |-> write_database(backup_database(fs), d1),
              kind |-> "ok"]

\* DataDashboard.update_data
update_data(d, fs, name, values) ==
    IF name = None
    THEN [data |-> d, fs |-> fs, kind |-> "AttributeError"]
    ELSE LET key == lower(strip(name))
             d1  == [k \in DOMAIN d \cup {key} |->
                       IF k = key THEN values ELSE d[k]]
         IN  [data |-> d1, fs |-> write_database(backup_database(fs), d1),
              kind |-> "ok"]

\* a file that open(..., "wt") has truncated and json.dump has not finished
Partial == [t |-> "partial"]

\* the file is there and holds a whole JSON text
IsComplete(file) == file # NoFile /\ file # Partial

\* DataDashboard.__init__ over a file that may be cut short: json.load
\* raises on it and there is no store
open_store(file) ==
    IF file = Partial THEN [kind |-> "JSONDecodeError", data |-> EmptyDict]
    ELSE [kind |-> "ok", data |-> DataDashboard(file)]

\* a persist that opens the live file for writing before it backs it up
persist_steps_open_first(fs, d) ==
    LET opened  == [live |-> Partial, backup |-> fs.backup,
                    io |-> Append(fs.io, "open")]
        renamed == backup_database(opened)
    IN  <<fs, opened, renamed, write_database(renamed, d)>>

\* backup_database and the write, call by call: the states of the two paths
\* from before the first call on the file system to after the last one
persist_steps(fs, d) ==
    LET unlinked == [live |-> fs.live, backup |-> NoFile,
                     io |-> Append(fs.io, "unlink")]
        renamed  == backup_database(fs)
        opened   == [live |-> Partial, backup |-> renamed.backup,
                     io |-> Append(renamed.io, "open")]
    IN  <<fs>>
        \o (IF fs.live # NoFile /\ fs.backup # NoFile THEN <<unlinked>> ELSE <<>>)
        \o (IF fs.live # NoFile THEN <<renamed>> ELSE <<>>)
        \o <<opened, write_database(renamed, d)>>

\* a mutator that sets the entry only once the file is written
mutator_steps_persist_first(d, fs, r) ==
    IF r.kind # "ok" THEN <<[data |-> r.data, fs |-> fs]>>
    ELSE LET t == persist_steps(fs, r.data)
         IN  [i \in 1..Len(t) |->
                [data |-> IF i = Len(t) THEN r.data ELSE d, fs |-> t[i]]]

\* remove_data / update_data call by call: d is self.data at the call, r
\* what the call leaves when nothing stops it; the mapping is changed
\* first, then the file system is called
mutator_steps(d, fs, r) ==
    IF r.kind # "ok" THEN <<[data |-> r.data, fs |-> fs]>>
    ELSE LET t == persist_steps(fs, r.data)
         IN  [i \in 1..Len(t) |-> [data |-> r.data, fs |-> t[i]]]

\* the submit branch of the callback `update` of create_input_form:
\* add_edit is 1 (add) or 2 (edit), search_name the value of the name-search
\* drop-down, value the values of the schema's inputs
update(d, fs, add_edit, search_name, value) ==
    LET form == IF add_edit = 2
                THEN [value EXCEPT !.name = search_name]
                ELSE value
    IN  IF add_edit = 1 /\ form.name = None
        THEN [data |-> d, fs |-> fs, kind |-> "AttributeError"]
        ELSE IF add_edit = 1 /\ check_data(d, form.name)
        THEN [data |-> d, fs |-> fs, kind |-> "already exists"]
        ELSE update_data(d, fs, form.name, form)

\* the submit branch of the callback `delete` of delete_form
delete(d, fs, value) == remove_data(d, fs, value)

\* the callback `update_values` of create_input_form
update_values(d, name) ==
    IF name = None THEN [kind |-> "AttributeError", val |-> NoneValue]
    ELSE get_data(d, name)

\* the options of the two name-search drop-downs, as create() builds them
name_options(d) == {d[k].name : k \in DOMAIN d}

\* ------------------------------------------------------------- state
VARIABLES
    data,      \* DataDashboard.data
    live,      \* the file at DataDashboard.data_path
    backup,    \* the file at <stem>.backup
    options,   \* the options of the name-search drop-downs
    last,      \* the last call: what it was, its name argument, how it ended
               \* and the calls it made on the file system
    targs,     \* the arguments of the Template under construction
    tres,      \* what the constructor gave
    alive,     \* the process that holds DataDashboard.data is running
    faults,    \* how many mutators have been stopped before they returned
    adversary, \* the rows of the table `adversary`, by id
    resp       \* the last request to the adversary blueprint and its response

vars == <<data, live, backup, options, last, targs, tres,
          alive, faults, adversary, resp>>
store_vars == <<data, live, backup, options, last>>
template_vars == <<targs, tres>>
fault_vars == <<alive, faults>>
web_vars == <<adversary, resp>>

\* no request has been made
NoRequest == [route |-> "none", user |-> 0, id |-> 0, method |-> "GET",
              status |-> 0, sql |-> <<>>]

\* the state outside the store and the template: a running process, an
\* empty table
InitRest ==
    /\ alive = TRUE
    /\ faults = 0
    /\ adversary = EmptyDict
    /\ resp = NoRequest

NoArgs == [schema |-> EmptyDict, hidden_columns |-> <<>>,
           group_count_columns |-> <<>>]

\* the application is first started in a folder that has no data file
Init ==
    /\ live = NoFile
    /\ backup = NoFile
    /\ data = DataDashboard(live)
    /\ options = name_options(data)
    /\ last = [op |-> "open", name |-> None, kind |-> "ok", io |-> <<>>]
    /\ targs = NoArgs
    /\ tres = [kind |-> "none"]
    /\ InitRest

NoIo == [live |-> live, backup |-> backup, io |-> <<>>]

\* main(): DataDashboard(folder, template) and create(), in a new process
Open ==
    /\ data' = DataDashboard(live)
    /\ options' = name_options(data')
    /\ last' = [op |-> "open", name |-> None, kind |-> "ok", io |-> <<>>]
    /\ UNCHANGED <<live, backup, template_vars, fault_vars, web_vars>>

\* what a call of a mutator leaves
Leaves(op, name, r) ==
    /\ Cardinality(DOMAIN r.data) <= MaxRecords
    /\ data' = r.data
    /\ live' = r.fs.live
    /\ backup' = r.fs.backup
    /\ last' = [op |-> op, name |-> name, kind |-> r.kind, io |-> r.fs.io]
    /\ UNCHANGED <<options, template_vars, fault_vars, web_vars>>

\* submit in add mode
SubmitAdd ==
    \E name \in Names \cup {None}, health \in Healths :
        \E r \in {update(data, NoIo, 1, None,
                          [name |-> name, health |-> health])} :
            Leaves("add", name, r)

\* submit in edit mode: the name comes from the drop-down
SubmitEdit ==
    \E search_name \in options \cup {None}, health \in Healths :
        Leaves("edit", search_name,
               update(data, NoIo, 2, search_name,
                      [name |-> None, health |-> health]))

\* submit of the delete form
SubmitDelete ==
    \E value \in options \cup {None} :
        Leaves("delete", value, delete(data, NoIo, value))

\* a choice in the name-search drop-down of the input form
SelectName ==
    \E name \in options \cup {None} :
        /\ last' = [op |-> "get", name |-> name,
                    kind |-> update_values(data, name).kind, io |-> <<>>]
        /\ UNCHANGED <<data, live, backup, options, template_vars,
                       fault_vars, web_vars>>

Next == Open \/ SubmitAdd \/ SubmitEdit \/ SubmitDelete \/ SelectName

Spec == Init /\ [][Next]_vars

\* ------------------------------------------------------------- Template
\* the declared templates: the arguments of Template(...)
TemplateArgs ==
    { [schema |-> [k \in keys |-> "text"],
       hidden_columns |-> hidden,
       group_count_columns |-> group] :
         keys \in SUBSET FieldNames,
         hidden \in ListsUpTo(MaxCols), group \in ListsUpTo(MaxCols) }

InitTemplate ==
    /\ live = NoFile
    /\ backup = NoFile
    /\ data = EmptyDict
    /\ options = {}
    /\ last = [op |-> "open", name |-> None, kind |-> "ok", io |-> <<>>]
    /\ targs \in TemplateArgs
    /\ tres = [kind |-> "none"]
    /\ InitRest

\* data.Template(name="monster", schema=..., hidden_columns=..., ...)
Construct ==
    /\ tres.kind = "none"
    /\ tres' = Template(targs.schema, targs.hidden_columns,
                        targs.group_count_columns)
    /\ UNCHANGED <<targs, store_vars, fault_vars, web_vars>>

NextTemplate == Construct

SpecTemplate == InitTemplate /\ [][NextTemplate]_vars

\* ------------------------------------------------------------- faults
\* a mutator that runs to its i-th state and there either returns (the last
\* state), or is stopped: by the death of the process ("crash": the mapping
\* is gone, the files stay) or by an OSError of the next call on the file
\* system (the callback ends, the process and its mapping stay)
Stops(op, name, r, i, how) ==
    LET steps == mutator_steps(data, NoIo, r)
        st    == steps[i]
        whole == i = Len(steps)
    IN  /\ alive
        /\ Cardinality(DOMAIN r.data) <= MaxRecords
        /\ whole \/ faults < MaxFaults
        /\ faults' = IF whole THEN faults ELSE faults + 1
        /\ live' = st.fs.live
        /\ backup' = st.fs.backup
        /\ alive' = (whole \/ how = "OSError")
        /\ data' = IF alive' THEN st.data ELSE EmptyDict
        /\ last' = [op |-> op, name |-> name,
                    kind |-> IF whole THEN r.kind ELSE how, io |-> st.fs.io]
        /\ UNCHANGED <<options, template_vars, web_vars>>

\* how many states the mutator that leaves r goes through
StepCount(r) == Len(mutator_steps(data, NoIo, r))

\* the names typed into the name input where mutators are stopped
FaultNames == {<<"a">>, <<"b">>}

AddStops(how) ==
    \E name \in FaultNames, health \in Healths :
        \E r \in {update(data, NoIo, 1, None,
                          [name |-> name, health |-> health])} :
            \E i \in 1..StepCount(r) : Stops("add", name, r, i, how)

EditStops(how) ==
    \E search_name \in options \cup {None}, health \in Healths :
        \E r \in {update(data, NoIo, 2, search_name,
                          [name |-> None, health |-> health])} :
            \E i \in 1..StepCount(r) : Stops("edit", search_name, r, i, how)

DeleteStops(how) ==
    \E value \in options \cup {None} :
        \E r \in {delete(data, NoIo, value)} :
            \E i \in 1..StepCount(r) : Stops("delete", value, r, i, how)

\* main() in a new process, over whatever the files hold
Restart ==
    LET o == open_store(live)
    IN  /\ alive' = (o.kind = "ok")
        /\ data' = o.data
        /\ options' = IF alive' THEN name_options(data') ELSE {}
        /\ last' = [op |-> "open", name |-> None, kind |-> o.kind, io |-> <<>>]
        /\ UNCHANGED <<live, backup, faults, template_vars, web_vars>>

\* a choice in the name-search drop-down, while the process runs
Select == alive /\ SelectName

\* the process may die at any call of a mutator
CrashAdd == AddStops("crash")
CrashEdit == EditStops("crash")
CrashDelete == DeleteStops("crash")

NextCrash == Restart \/ CrashAdd \/ CrashEdit \/ CrashDelete

SpecCrash == Init /\ [][NextCrash]_vars

\* any call on the file system may raise
FailAdd == AddStops("OSError")
FailEdit == EditStops("OSError")
FailDelete == DeleteStops("OSError")

NextFail == Restart \/ Select \/ FailAdd \/ FailEdit \/ FailDelete

SpecFail == Init /\ [][NextFail]_vars

\* ------------------------------------------------------------- store API
\* the values a caller of update_data may pass for a name: a record, or None
\* (values is annotated dict[str, Any] and is never inspected)
ApiValues(name) ==
    {[name |-> name, health |-> health] : health \in Healths} \cup {NoneValue}

\* a call of DataDashboard.update_data by a user of the class
ApiUpdate ==
    \E name \in Names :
        \E values \in ApiValues(name) :
            \E r \in {update_data(data, NoIo, name, values)} :
                Leaves("update_data", name, r)

\* a call of DataDashboard.remove_data by a user of the class
ApiRemove ==
    \E name \in Names :
        \E r \in {remove_data(data, NoIo, name)} :
            Leaves("remove_data", name, r)

\* DataDashboard(folder, template) in a new process, without the forms
ApiOpen ==
    /\ data' = DataDashboard(live)
    /\ last' = [op |-> "open", name |-> None, kind |-> "ok", io |-> <<>>]
    /\ UNCHANGED <<live, backup, options, template_vars, fault_vars, web_vars>>

NextApi == ApiOpen \/ ApiUpdate \/ ApiRemove

SpecApi == Init /\ [][NextApi]_vars

\* ------------------------------------------------------------- adversary
\* g.user["id"] of a request that passes login_required
Users == 1..MaxUsers

\* the <int:id> of a route
Ids == 1..MaxRows

\* request.form of the add and update pages
Forms == [name : {"", "orc"}, health : Healths \cup {""}, stress : {""}]

NoRow == [author_id |-> 0, name |-> "", health |-> "", stress |-> ""]

\* get_adversary without the comparison of the author
get_adversary_no_check(db, id, user) ==
    IF id \notin DOMAIN db THEN [status |-> 404, row |-> NoRow]
    ELSE [status |-> 200, row |-> db[id]]

\* get_adversary(id): the row, or the status it aborts with
get_adversary(db, id, user) ==
    IF id \notin DOMAIN db THEN [status |-> 404, row |-> NoRow]
    ELSE IF db[id].author_id # user THEN [status |-> 403, row |-> NoRow]
    ELSE [status |-> 200, row |-> db[id]]

\* the error of the add and update forms
form_error(form) ==
    IF form.name = "" THEN "Name is required."
    ELSE IF form.health = "" THEN "Health is required."
    ELSE "None"

\* add(): the table, the status and the SQL writes of the request; the new
\* row takes the id the database gives it
adversary_add(db, user, method, form, id) ==
    IF method = "POST" /\ form_error(form) = "None"
    THEN [db |-> [k \in DOMAIN db \cup {id} |->
                    IF k = id
                    THEN [author_id |-> user, name |-> form.name,
                          health |-> form.health, stress |-> form.stress]
                    ELSE db[k]],
          status |-> 302, sql |-> <<"INSERT">>]
    ELSE [db |-> db, status |-> 200, sql |-> <<>>]

\* update(id)
adversary_update(db, user, id, method, form) ==
    LET a == get_adversary(db, id, user)
    IN  IF a.status # 200 THEN [db |-> db, status |-> a.status, sql |-> <<>>]
        ELSE IF method = "POST" /\ form_error(form) = "None"
        THEN [db |-> [db EXCEPT ![id] =
                        [author_id |-> @.author_id, name |-> form.name,
                         health |-> form.health, stress |-> form.stress]],
              status |-> 302, sql |-> <<"UPDATE">>]
        ELSE [db |-> db, status |-> 200, sql |-> <<>>]

\* delete(id)
adversary_delete(db, user, id) ==
    LET a == get_adversary(db, id, user)
    IN  IF a.status # 200 THEN [db |-> db, status |-> a.status, sql |-> <<>>]
        ELSE [db |-> [k \in DOMAIN db \ {id} |-> db[k]],
              status |-> 302, sql |-> <<"DELETE">>]

\* what a request leaves
Responds(route, user, id, method, r) ==
    /\ adversary' = r.db
    /\ resp' = [route |-> route, user |-> user, id |-> id, method |-> method,
                status |-> r.status, sql |-> r.sql]
    /\ UNCHANGED <<store_vars, template_vars, fault_vars>>

\* GET or POST /adversary/add
RequestAdd ==
    \E user \in Users, method \in {"GET", "POST"}, form \in Forms :
        \E id \in Ids \ DOMAIN adversary :
            \E r \in {adversary_add(adversary, user, method, form, id)} :
                Responds("add", user, IF r.sql = <<>> THEN 0 ELSE id, method, r)

\* GET or POST /adversary/<id>/update
RequestUpdate ==
    \E user \in Users, id \in Ids, method \in {"GET", "POST"}, form \in Forms :
        \E r \in {adversary_update(adversary, user, id, method, form)} :
            Responds("update", user, id, method, r)

\* POST /adversary/<id>/delete
RequestDelete ==
    \E user \in Users, id \in Ids :
        \E r \in {adversary_delete(adversary, user, id)} :
            Responds("delete", user, id, "POST", r)

NextAdversary == RequestAdd \/ RequestUpdate \/ RequestDelete

SpecAdversary == Init /\ [][NextAdversary]_vars

\* ------------------------------------------------------------- claims
\* the normalized form of a name: trimmed, then lower-cased
Normalize(name) == lower(strip(name))

Mutators == {"add", "edit", "delete"}

Range(seq) == {seq[i] : i \in 1..Len(seq)}

\* the last step was the call `op` on a name that is a string
Called(op) == last'.op = op /\ last'.name # None

\* C1: an add under a name whose normalized form is already a key fails as
\* a duplicate: the mapping is as it was, and no call is made on the live
\* file or on the backup file.
C1_DuplicateAddFails ==
    [][ (Called("add") /\ Normalize(last'.name) \in DOMAIN data)
        => /\ last'.kind = "already exists"
           /\ data' = data
           /\ live' = live
           /\ backup' = backup
           /\ last'.io = <<>> ]_vars

\* an add of a case or whitespace variant of a stored name was refused, and
\* the store holds the record of the first add
C1_Witness ==
    /\ last.op = "add"
    /\ last.kind = "already exists"
    /\ last.name # Normalize(last.name)
    /\ data[Normalize(last.name)].name # last.name
    /\ live # NoFile

\* C2: an update of an identity that is not in the store fails and leaves
\* the mapping and the live file as they were.
C2_UpdateMissingFails ==
    [][ (Called("edit") /\ Normalize(last'.name) \notin DOMAIN data)
        => /\ last'.kind # "ok"
           /\ data' = data
           /\ live' = live ]_vars

\* C3: a remove under the name string a stored record was added under
\* deletes the entry from the mapping and from the live file.
C3_RemoveDeletes ==
    [][ (/\ Called("delete")
         /\ Normalize(last'.name) \in DOMAIN data
         /\ data[Normalize(last'.name)].name = last'.name)
        => /\ ~check_data(data', last'.name)
           /\ live' # NoFile
           /\ Normalize(last'.name) \notin DOMAIN json_load(live') ]_vars

C5_ExistsIffNormalizedKey ==
    /\ \A n \in Names : check_data(data, n) <=> Normalize(n) \in DOMAIN data
    /\ (last.op = "add" /\ last.kind = "ok")
       => \A m \in Names :
            Normalize(m) = Normalize(last.name) => check_data(data, m)

\* a record was added under a name that is not its normalized form, and
\* another spelling of it is asked for
C5_Witness ==
    /\ last.op = "add"
    /\ last.kind = "ok"
    /\ last.name # Normalize(last.name)
    /\ \E m \in Names : m # last.name /\ Normalize(m) = Normalize(last.name)

\* C6: get(name) gives the record stored under the normalized name exactly
\* when exists(name) is true and fails with KeyError otherwise; a store
\* opened over no file is empty, so that every get fails.
C6_GetIffExists ==
    /\ \A n \in Names :
         LET r == get_data(data, n)
         IN  /\ r.kind = "ok" <=> check_data(data, n)
             /\ r.kind = "ok" => r.val = data[Normalize(n)]
             /\ r.kind # "ok" => r.kind = "KeyError"
    /\ (last.op = "get" /\ last.name # None)
       => /\ last.kind = "ok" <=> check_data(data, last.name)
          /\ last.kind \in {"ok", "KeyError"}
    /\ (last.op = "open" /\ live = NoFile)
       => /\ data = EmptyDict
          /\ \A n \in Names :
               ~check_data(data, n) /\ get_data(data, n).kind = "KeyError"

\* a get under a spelling that is not the key has given the record
C6_Witness ==
    /\ last.op = "get"
    /\ last.kind = "ok"
    /\ last.name # Normalize(last.name)

\* C7: after a successful mutator the live file holds the whole mapping: a
\* store opened from it has the contents of the mapping.
C7_PersistenceRoundTrip ==
    (last.op \in Mutators /\ last.kind = "ok")
    => /\ live # NoFile
       /\ DataDashboard(live) = data

\* an update has been written over a store of two records
C7_Witness ==
    /\ last.op = "edit"
    /\ last.kind = "ok"
    /\ Cardinality(DOMAIN data) = 2

\* C8: a successful mutator leaves in the backup file what the live file
\* held before it, in place of any earlier backup; over no live file it
\* skips the backup, creates no backup file and still writes.
C8_BackupOneBehind ==
    [][ (last'.op \in Mutators /\ last'.kind = "ok")
        => IF live # NoFile
           THEN /\ backup' = live
                /\ "rename" \in Range(last'.io)
                /\ backup # NoFile => "unlink" \in Range(last'.io)
           ELSE /\ backup' = backup
                /\ last'.io = <<"write">> ]_vars

\* a mutator has replaced an earlier backup by the live file it found
C8_Witness ==
    /\ last.op \in Mutators
    /\ last.kind = "ok"
    /\ "unlink" \in Range(last.io)
    /\ backup # NoFile
    /\ backup # live

\* the normalized keys of the declared schema
NormalizedSchema == {Normalize(k) : k \in DOMAIN targs.schema}

\* C9: constructing a Template whose schema has no field that normalizes
\* to `name` fails with a validation error, whatever the two lists are.
C9_NoNameIsValidationError ==
    (tres.kind # "none" /\ T_name \notin NormalizedSchema)
    => tres.kind = "ValidationError"

\* C10: the construction fails with a validation error if some entry of
\* hidden_columns or group_count_columns, normalized, is not a key of the
\* normalized schema; a constructed Template stores in both lists only
\* normalized keys of its schema.
C10_ColumnsAreSchemaKeys ==
    tres.kind # "none"
    => /\ (\E c \in Range(targs.hidden_columns)
                    \cup Range(targs.group_count_columns) :
              Normalize(c) \notin NormalizedSchema)
          => tres.kind = "ValidationError"
       /\ tres.kind = "Template"
          => \A c \in Range(tres.hidden_columns)
                      \cup Range(tres.group_count_columns) :
               c = Normalize(c) /\ c \in DOMAIN tres.schema

\* C11: the store holds at most one record per normalized identity: every
\* key of the mapping is its own trimmed, lower-cased form, so that no two
\* keys have the same normalized form.
C11_KeysAreNormalized ==
    /\ \A k \in DOMAIN data : k = Normalize(k)
    /\ \A j, k \in DOMAIN data : Normalize(j) = Normalize(k) => j = k

\* two records are stored, one of them added under a spelling that is not
\* its key
C11_Witness ==
    /\ Cardinality(DOMAIN data) = 2
    /\ \E k \in DOMAIN data : data[k].name # k
    /\ last.op \in Mutators

\* C12: a mutator that starts over a completely written live file and is
\* stopped by a crash at any of its steps (before the first call, after
\* the unlink of the old backup, after the rename, during the rewrite)
\* leaves the live file or the backup file holding the whole store as it
\* was before that mutator; stopped between the rename and the write, it
\* leaves no live file and that snapshot in the backup file.
C12_CrashKeepsSnapshot ==
    [][ (/\ alive
         /\ IsComplete(live)
         /\ last'.op \in Mutators
         /\ last'.kind = "crash")
        => /\ live' = json_dump(data) \/ backup' = json_dump(data)
           /\ (last'.io # <<>> /\ last'.io[Len(last'.io)] = "rename")
              => live' = NoFile /\ backup' = json_dump(data) ]_vars

\* the process died between the rename and the write of a mutator that
\* had a backup to replace
C12_Witness ==
    /\ ~alive
    /\ last.kind = "crash"
    /\ last.io = <<"unlink", "rename">>
    /\ live = NoFile
    /\ IsComplete(backup)
    /\ backup # json_dump(EmptyDict)

\* the live file holds the mapping of the running process
InSync == live = json_dump(data)

\* the step is a mutator that a failed call on the file system has ended
Failed == last'.op \in Mutators /\ last'.kind = "OSError"

\* the step is a mutator that has returned after its write
Succeeded == last'.op \in Mutators /\ last'.kind = "ok"

\* a failed mutator has changed the mapping as asked and not rolled it
\* back; the disk does not hold the change
NoRollback ==
    Failed
    => /\ last'.op \in {"add", "edit"}
          => /\ Normalize(last'.name) \in DOMAIN data'
             /\ data'[Normalize(last'.name)].name = last'.name
       /\ last'.op = "delete" => last'.name \notin DOMAIN data'
       /\ (InSync /\ data' # data) => ~InSync'

\* a mutator that succeeds leaves the live file equal to the mapping
SuccessSyncs == Succeeded => InSync'

\* C13 (as stated): a failed mutator leaves the mapping changed and the
\* disk not; within a run of the process the two stay different until the
\* next mutator completes successfully, after which they are equal.
C13_DivergedUntilSuccess ==
    [][ /\ NoRollback
        /\ SuccessSyncs
        /\ (alive /\ ~InSync /\ InSync' /\ last'.op # "open")
           => Succeeded ]_vars

\* C13 (amended): as above, but the two stay different until a later
\* mutator either completes successfully or fails after changing the
\* mapping again; reads never end the difference.
C13_DivergedUntilNextMutator ==
    [][ /\ NoRollback
        /\ SuccessSyncs
        /\ (alive /\ ~InSync /\ InSync' /\ last'.op # "open")
           => Succeeded \/ (Failed /\ data' # data) ]_vars

\* a mutator has failed before its write: the process runs on with the
\* change, the live file is whole and does not hold it
C13_Witness ==
    /\ alive
    /\ last.op \in Mutators
    /\ last.kind = "OSError"
    /\ IsComplete(live)
    /\ json_load(live) # data

\* C14: a call of remove_data that starts with the in-memory mapping equal to
\* what the live file holds ends with the two equal, whatever the key and
\* whatever value is stored under it
C14_RemoveKeepsSync ==
    [][ (last'.op = "remove_data" /\ DataDashboard(live) = data)
          => DataDashboard(live') = data' ]_vars

\* C15: a request changes or deletes an adversary row only if it is an update
\* or delete request for that row by the row's author; an update or delete
\* request for a row of another user ends with 403, one for a missing id with
\* 404, and in both cases no SQL write is made and the table is unchanged
C15_OnlyAuthorWrites ==
    [][ /\ \A id \in DOMAIN adversary :
              (id \notin DOMAIN adversary' \/ adversary'[id] # adversary[id])
                  => /\ resp'.route \in {"update", "delete"}
                     /\ resp'.id = id
                     /\ resp'.user = adversary[id].author_id
        /\ \A id \in DOMAIN adversary \cap DOMAIN adversary' :
              adversary'[id].author_id = adversary[id].author_id
        /\ resp'.route \in {"update", "delete"}
              => /\ resp'.id \notin DOMAIN adversary
                     => /\ resp'.status = 404
                        /\ resp'.sql = <<>>
                        /\ adversary' = adversary
                 /\ (/\ resp'.id \in DOMAIN adversary
                     /\ adversary[resp'.id].author_id # resp'.user)
                     => /\ resp'.status = 403
                        /\ resp'.sql = <<>>
                        /\ adversary' = adversary ]_vars

\* a user has asked to update or delete a row of another user, and the row is
\* still there
C15_Witness ==
    /\ resp.route \in {"update", "delete"}
    /\ resp.status = 403
    /\ resp.id \in DOMAIN adversary
    /\ adversary[resp.id].author_id # resp.user
    /\ Cardinality(DOMAIN adversary) = 2

====
